---- MODULE Spec2Model ----
(***************************************************************************)
(* Model of nwmp_collars.ipynb: the paginated search (cell 5, SpecPages), *)
(* the filter of the reports (cell 9, SpecFilter), the breakdown of the   *)
(* collar files by format followed by the classifier (cells 12 to 20,     *)
(* SpecFormats), and the heuristic coordinate-column classifier with the  *)
(* concatenation that follows it on its own (cells 19 and 20, Spec).  The *)
(* variable i is the position of the loop that is running: the variable i *)
(* of cell 5, and the number of items processed in the for loops.  In     *)
(* SpecPages a report is its number in the API's listing; in SpecFilter   *)
(* it is the dictionary of its metadata.                                  *)
(* A column name is a sequence of one-character strings, so                *)
(* that lower-casing and the substring test "hole" in name are computed.  *)
(* A cell is a token of the tab-delimited text: an integer, a decimal      *)
(* (n / 10^d), an empty field (NaN) or free text.  pandas is modelled as   *)
(* of the 1.3/1.4 releases current when the notebook was written.          *)
(***************************************************************************)
EXTENDS Integers, Sequences, FiniteSets, TLC

VARIABLES other, i, pc, csv, sub_df, potential_locations, sub_df_list, out, final,
          collar_file_dict, ggic, error_reading_file,
          count, response_list, report_list

vars == <<other, i, pc, csv, sub_df, potential_locations, sub_df_list, out, final,
          collar_file_dict, ggic, error_reading_file,
          count, response_list, report_list>>

(* The variables of the search (cells 3 to 9), of the format breakdown    *)
(* (cell 12) and of the classifier (cells 19 and 20).                     *)
searchVars == <<count, response_list, report_list>>
formatVars == <<collar_file_dict, ggic, error_reading_file>>
classifierVars == <<csv, sub_df, potential_locations, sub_df_list, out, final>>

(* The value of a variable of a part of the notebook that a specification *)
(* does not follow.                                                       *)
NotFollowed == [kind |-> "not followed"]

(* ---------------------------------------------------------------------- *)
(* Bounds of the input space                                               *)
(* ---------------------------------------------------------------------- *)
MaxRows == 2
MaxCols == 2

(* The report identifiers, in the order in which the dictionaries meet    *)
(* them; ggic and other are given by their keys in insertion order, the   *)
(* value of a key being its URL in collar_file_dict.                      *)
AllKeys == <<"CR038894", "CR045577">>

(* ---------------------------------------------------------------------- *)
(* Sequences                                                               *)
(* ---------------------------------------------------------------------- *)
Range(s) == {s[k] : k \in DOMAIN s}

RECURSIVE SelectIdx(_, _, _)
(* The subsequence of s at the positions k >= from for which keep[k]. *)
SelectIdx(s, keep, from) ==
    IF from > Len(s) THEN <<>>
    ELSE (IF keep[from] THEN <<s[from]>> ELSE <<>>) \o SelectIdx(s, keep, from + 1)

RECURSIVE Flatten(_)
Flatten(ss) == IF ss = <<>> THEN <<>> ELSE Head(ss) \o Flatten(Tail(ss))

RECURSIVE SortedSeq(_)
(* The elements of a finite set of integers in increasing order. *)
SortedSeq(S) ==
    IF S = {} THEN <<>>
    ELSE LET m == CHOOSE x \in S : \A y \in S : x <= y
         IN  <<m>> \o SortedSeq(S \ {m})

Prefixes(s) == {SubSeq(s, 1, n) : n \in 0..Len(s)}

(* ---------------------------------------------------------------------- *)
(* str.lower() and the `in` substring test                                 *)
(* ---------------------------------------------------------------------- *)
UpperChars == <<"A","B","C","D","E","F","G","H","I","J","K","L","M",
                "N","O","P","Q","R","S","T","U","V","W","X","Y","Z">>
LowerChars == <<"a","b","c","d","e","f","g","h","i","j","k","l","m",
                "n","o","p","q","r","s","t","u","v","w","x","y","z">>

LowerChar(c) ==
    IF \E k \in DOMAIN UpperChars : UpperChars[k] = c
    THEN LowerChars[CHOOSE k \in DOMAIN UpperChars : UpperChars[k] = c]
    ELSE c

Lower(x) == [k \in DOMAIN x |-> LowerChar(x[k])]

Contains(x, sub) ==
    \E k \in 0..(Len(x) - Len(sub)) : SubSeq(x, k + 1, k + Len(sub)) = sub

Hole == <<"h","o","l","e">>
ReportIdName == <<"r","e","p","o","r","t","_","i","d">>
VariableName == <<"v","a","r","i","a","b","l","e">>
ValueName == <<"v","a","l","u","e">>

(* ---------------------------------------------------------------------- *)
(* Cells and their rendering by astype(str)                                *)
(* ---------------------------------------------------------------------- *)
IntCell(n) == [t |-> "int", n |-> n]
DecCell(n, d) == [t |-> "dec", n |-> n, d |-> d]
NaN == [t |-> "nan"]
TxtCell(s) == [t |-> "txt", s |-> s]

DigitChars == <<"0","1","2","3","4","5","6","7","8","9">>

RECURSIVE Digits(_)
Digits(n) ==
    IF n < 10 THEN <<DigitChars[n + 1]>>
    ELSE Digits(n \div 10) \o <<DigitChars[(n % 10) + 1]>>

RECURSIVE FracDigits(_, _)
(* The d digits of the fraction f / 10^d, leading zeros kept. *)
FracDigits(f, d) ==
    IF d = 0 THEN <<>>
    ELSE FracDigits(f \div 10, d - 1) \o <<DigitChars[(f % 10) + 1]>>

RECURSIVE StripZeros(_)
StripZeros(s) ==
    IF s # <<>> /\ s[Len(s)] = "0" THEN StripZeros(SubSeq(s, 1, Len(s) - 1)) ELSE s

RECURSIVE Pow10(_)
Pow10(d) == IF d = 0 THEN 1 ELSE 10 * Pow10(d - 1)

Abs(n) == IF n < 0 THEN -n ELSE n
Sign(n) == IF n < 0 THEN <<"-">> ELSE <<>>

(* str() of an element of an int64 column. *)
StrInt(c) == Sign(c.n) \o Digits(Abs(c.n))

(* str() of an element of a float64 column: the shortest repr of the float. *)
StrFloat(c) ==
    CASE c.t = "nan" -> <<"n","a","n">>
      [] c.t = "int" -> Sign(c.n) \o Digits(Abs(c.n)) \o <<".","0">>
      [] c.t = "dec" ->
           LET p == Pow10(c.d)
               frac == StripZeros(FracDigits(Abs(c.n) % p, c.d))
           IN  Sign(c.n) \o Digits(Abs(c.n) \div p) \o <<".">>
                 \o (IF frac = <<>> THEN <<"0">> ELSE frac)

AsTypeStr(c, dtype) == IF dtype = "int64" THEN StrInt(c) ELSE StrFloat(c)

(* ---------------------------------------------------------------------- *)
(* The resources behind the URLs of `other`                               *)
(* ---------------------------------------------------------------------- *)
(* The columns a collar file may hold.  In a file of n rows the column's   *)
(* r-th cell is pat[1] for odd r and pat[2] for even r.                    *)
Catalogue == <<
    [name |-> <<"E","A","S","T","I","N","G">>, pat |-> <<IntCell(42), IntCell(42)>>],
    [name |-> <<"E","a","s","t","i","n","g">>,
        pat |-> <<DecCell(45123456, 2), DecCell(45123456, 2)>>],
    [name |-> <<"H","o","l","e","_","I","D">>, pat |-> <<TxtCell("DH001"), TxtCell("DH001")>>],
    [name |-> <<"H","O","L","E","N","O">>, pat |-> <<IntCell(100234), IntCell(100235)>>],
    [name |-> <<"I","D">>, pat |-> <<IntCell(42), NaN>>],
    [name |-> <<"D","e","p","t","h">>, pat |-> <<IntCell(120), DecCell(125, 1)>>],
    [name |-> <<"R","e","p","o","r","t","_","I","D">>,
        pat |-> <<IntCell(123456), IntCell(123456)>>],
    [name |-> <<"R","L">>, pat |-> <<DecCell(-15, 1), DecCell(12345, 2)>>] >>

Northing == [name |-> <<"N","o","r","t","h","i","n","g">>,
             pat |-> <<DecCell(784532112, 2), DecCell(784532112, 2)>>]

Unparseable == [kind |-> "unparseable"]

TsvFile(cols, n) == [kind |-> "tsv", cols |-> cols, n |-> n]

(* The one-row file Easting, Northing, Hole_ID. *)
Scenario1 == TsvFile(<<Catalogue[2], Northing, Catalogue[3]>>, 1)

(* The one-row file ID, Depth. *)
Scenario2 == TsvFile(<<Catalogue[5], Catalogue[6]>>, 1)

(* The catalogue columns chosen by the bits of mask, in catalogue order. *)
Chosen(mask) ==
    LET S == SortedSeq({k \in DOMAIN Catalogue : (mask \div (2 ^ (k - 1))) % 2 = 1})
    IN  [k \in DOMAIN S |-> Catalogue[S[k]]]

NumMasks == (2 ^ Len(Catalogue)) - 1

(* The resources, numbered: an unparseable byte stream, Scenario1, and for *)
(* every non-empty choice of catalogue columns and every number of rows    *)
(* up to MaxRows the tab-delimited file of these columns.                 *)
Resource(x) ==
    IF x = 1 THEN Unparseable
    ELSE IF x = 2 THEN Scenario1
    ELSE TsvFile(Chosen(((x - 3) \div (MaxRows + 1)) + 1), (x - 3) % (MaxRows + 1))

NumResources == 2 + NumMasks * (MaxRows + 1)

(* The numbers of the resources a URL of `other` may return: the files of  *)
(* at most MaxCols columns, and the two above.                            *)
ResourceIds ==
    {x \in 1..NumResources : x > 2 => Len(Resource(x).cols) <= MaxCols}

(* ---------------------------------------------------------------------- *)
(* pandas: read_csv and the DataFrame operations of cell 19                *)
(* ---------------------------------------------------------------------- *)
NoFrame == [kind |-> "none"]
ReadError == [kind |-> "error"]

IsFrame(df) == df.kind = "frame"

(* The dtype read_csv infers for a column from its cells. *)
InferDtype(cells) ==
    IF cells = <<>> THEN "object"
    ELSE IF \A r \in DOMAIN cells : cells[r].t = "int" THEN "int64"
    ELSE IF \A r \in DOMAIN cells : cells[r].t \in {"int", "dec", "nan"} THEN "float64"
    ELSE "object"

PatCells(pat, n) == [r \in 1..n |-> pat[((r - 1) % 2) + 1]]

(* pd.read_csv(resource_url, encoding='latin', sep='\t') of a parseable file. *)
ReadCsv(f) ==
    LET data == [k \in DOMAIN f.cols |-> PatCells(f.cols[k].pat, f.n)]
    IN  [kind |-> "frame",
         columns |-> [k \in DOMAIN f.cols |-> f.cols[k].name],
         dtypes |-> [k \in DOMAIN f.cols |-> InferDtype(data[k])],
         data |-> data,
         n |-> f.n]

(* df.iloc[:, positions kept] *)
KeepColumns(df, keep) ==
    [df EXCEPT !.columns = SelectIdx(df.columns, keep, 1),
               !.dtypes = SelectIdx(df.dtypes, keep, 1),
               !.data = SelectIdx(df.data, keep, 1)]

(* sub_df.columns = [x.lower() for x in sub_df.columns] *)
LowerColumns(df) ==
    [df EXCEPT !.columns = [k \in DOMAIN df.columns |-> Lower(df.columns[k])]]

(* Mutant: duplicated(keep='last'), true at every occurrence but the last. *)
DuplicatedKeepLast(cols) ==
    [k \in DOMAIN cols |-> \E j \in (k + 1)..Len(cols) : cols[j] = cols[k]]

(* Index.duplicated(): true at every occurrence of a label but the first. *)
Duplicated(cols) ==
    [k \in DOMAIN cols |-> \E j \in 1..(k - 1) : cols[j] = cols[k]]

(* Mutant: the mask without its negation, keeping the repeated labels. *)
KeepDuplicateColumns(df) ==
    KeepColumns(df, [k \in DOMAIN df.columns |-> Duplicated(df.columns)[k]])

(* sub_df.loc[:, ~sub_df.columns.duplicated()] *)
DropDuplicateColumns(df) ==
    KeepColumns(df, [k \in DOMAIN df.columns |-> ~Duplicated(df.columns)[k]])

(* sub_df.select_dtypes(np.number).columns.tolist() *)
NumberedColumns(df) ==
    SelectIdx(df.columns, [k \in DOMAIN df.columns |-> df.dtypes[k] \in {"int64", "float64"}], 1)

(* [x for x in sub_df.columns.tolist() if "hole" in x.lower()] *)
PotentialIds(df) ==
    SelectIdx(df.columns, [k \in DOMAIN df.columns |-> Contains(Lower(df.columns[k]), Hole)], 1)

(* The position of the column labelled k (labels are unique when used). *)
Loc(df, k) == CHOOSE p \in DOMAIN df.columns : df.columns[p] = k

(* sub_df[k].astype(str).apply(len) *)
Lengths(df, k) ==
    LET p == Loc(df, k)
    IN  [r \in 1..df.n |-> Len(AsTypeStr(df.data[p][r], df.dtypes[p]))]

(* The j-th smallest element of a non-empty sequence of integers. *)
Kth(s, j) ==
    CHOOSE v \in Range(s) :
        /\ Cardinality({r \in DOMAIN s : s[r] < v}) < j
        /\ Cardinality({r \in DOMAIN s : s[r] <= v}) >= j

(* Twice Series.median() of a non-empty series: the middle element, or     *)
(* the mean of the two middle elements.                                   *)
Median2(s) ==
    LET n == Len(s)
    IN  IF n % 2 = 1 THEN 2 * Kth(s, (n + 1) \div 2)
        ELSE Kth(s, n \div 2) + Kth(s, (n \div 2) + 1)

Threshold == 5

(* Mutant: the threshold test written as a strict comparison. *)
LengthQualifiesStrict(s) == s # <<>> /\ Median2(s) > 2 * Threshold

(* length >= 5.0, where the median of an empty series is NaN. *)
LengthQualifies(s) == s # <<>> /\ Median2(s) >= 2 * Threshold

(* The loop over numbered_columns that fills potential_locations. *)
PotentialLocations(df) ==
    LET numbered == NumberedColumns(df)
    IN  SelectIdx(numbered,
                  [k \in DOMAIN numbered |-> LengthQualifies(Lengths(df, numbered[k]))], 1)

(* Mutant: a column report_id of the file is kept, not overwritten. *)
SetReportIdKeepExisting(df, key) ==
    IF \E p \in DOMAIN df.columns : df.columns[p] = ReportIdName
    THEN df
    ELSE [df EXCEPT !.columns = Append(df.columns, ReportIdName),
                    !.dtypes = Append(df.dtypes, "object"),
                    !.data = Append(df.data, [r \in 1..df.n |-> TxtCell(key)])]

(* sub_df['report_id'] = key: overwrites the column of that label when the *)
(* frame has one, appends a column otherwise.                             *)
SetReportId(df, key) ==
    LET col == [r \in 1..df.n |-> TxtCell(key)]
    IN  IF \E p \in DOMAIN df.columns : df.columns[p] = ReportIdName
        THEN [df EXCEPT !.dtypes = [p \in DOMAIN df.columns |->
                            IF df.columns[p] = ReportIdName THEN "object" ELSE df.dtypes[p]],
                        !.data = [p \in DOMAIN df.columns |->
                            IF df.columns[p] = ReportIdName THEN col ELSE df.data[p]]]
        ELSE [df EXCEPT !.columns = Append(df.columns, ReportIdName),
                        !.dtypes = Append(df.dtypes, "object"),
                        !.data = Append(df.data, col)]

(* The positions of the columns labelled by labels[1], labels[2], ... *)
Indexer(df, labels) ==
    Flatten([k \in DOMAIN labels |->
                SelectIdx([p \in DOMAIN df.columns |-> p],
                          [p \in DOMAIN df.columns |-> df.columns[p] = labels[k]], 1)])

(* df.iloc[:, positions] *)
ILoc(df, positions) ==
    [df EXCEPT !.columns = [k \in DOMAIN positions |-> df.columns[positions[k]]],
               !.dtypes = [k \in DOMAIN positions |-> df.dtypes[positions[k]]],
               !.data = [k \in DOMAIN positions |-> df.data[positions[k]]]]

(* sub_df[['report_id'] + potential_locations + potential_ids] *)
GetItem(df, labels) == ILoc(df, Indexer(df, labels))

(* algos.unique: the first occurrences, in order. *)
Unique(s) == SelectIdx(s, [k \in DOMAIN s |-> ~Duplicated(s)[k]], 1)

(* pd.melt(frame, id_vars, value_vars): the frame is cut to the id and     *)
(* value columns, the id columns are popped and tiled, and every other     *)
(* column left gives one row per row of the frame, column by column.      *)
Melt(df, id_vars, value_vars) ==
    LET frame == ILoc(df, Unique(Indexer(df, id_vars \o value_vars)))
        isId == [p \in DOMAIN frame.columns |-> frame.columns[p] \in Range(id_vars)]
        rest == KeepColumns(frame, [p \in DOMAIN frame.columns |-> ~isId[p]])
        idRow(r) == [k \in DOMAIN id_vars |-> frame.data[Loc(frame, id_vars[k])][r]]
    IN  [columns |-> id_vars \o <<VariableName, ValueName>>,
         rows |-> Flatten([c \in DOMAIN rest.columns |->
                     [r \in 1..frame.n |-> idRow(r) \o <<rest.columns[c], rest.data[c][r]>>]])]

(* pd.concat(sub_df_list) of a non-empty list of frames. *)
Concat(frames) ==
    [kind |-> "concat",
     columns |-> Unique(Flatten([k \in DOMAIN frames |-> frames[k].columns])),
     rows |-> Flatten([k \in DOMAIN frames |-> frames[k].rows])]

(* What cell 16 left in `final`: the concatenation of the raw tables. *)
Raw16 == [kind |-> "raw16"]

(* ---------------------------------------------------------------------- *)
(* Cell 19: the classifier loop, and cell 20                               *)
(* ---------------------------------------------------------------------- *)
LocationsExtracted == "Locations Extracted"
NoLocationsFound == "No locations found based on values being decmials of 6 significant places"
ErrorReadingFile == "Error reading file "

(* The frame after the first "Drop duplicate columns" step. *)
Normalise(df) == DropDuplicateColumns(LowerColumns(df))

(* The working table of a dataset with potential locations. *)
WorkingTable(d, key) ==
    DropDuplicateColumns(
        GetItem(SetReportId(d, key),
                <<ReportIdName>> \o PotentialLocations(d) \o PotentialIds(d)))

(* Mutant: the test written as >= 0, so the branch is always taken. *)
HasLocationsAlways(locs) == Len(locs) >= 0

(* if len(potential_locations) > 0 *)
HasLocations(locs) == Len(locs) > 0

(* if len(potential_locations) equals 0 *)
HasNoLocations(locs) == Len(locs) = 0

(* The body of the try block, once read_csv has returned df: what it      *)
(* leaves in potential_locations and sub_df, the frames it appends to      *)
(* sub_df_list and the lines it prints.                                   *)
TryBody(key, df) ==
    LET d == Normalise(df)
        locs == PotentialLocations(d)
        work == WorkingTable(d, key)
    IN  [raised |-> FALSE,
         csv |-> df,
         potential_locations |-> locs,
         sub_df |-> IF HasLocations(locs) THEN work ELSE d,
         appended |-> IF HasLocations(locs)
                      THEN <<Melt(work, <<ReportIdName>>, locs)>> ELSE <<>>,
         printed |-> (IF HasLocations(locs)
                      THEN <<[msg |-> LocationsExtracted, key |-> key]>> ELSE <<>>)
                     \o (IF HasNoLocations(locs)
                         THEN <<[msg |-> NoLocationsFound, key |-> key]>> ELSE <<>>)]

(* Mutant: the handler swallows the exception without reporting it. *)
ExceptHandlerSilent(key) ==
    [raised |-> TRUE, csv |-> ReadError, appended |-> <<>>, printed |-> <<>>]

(* except: print("Error reading file ", key); nothing else is assigned.   *)
ExceptHandler(key) ==
    [raised |-> TRUE, csv |-> ReadError, appended |-> <<>>,
     printed |-> <<[msg |-> ErrorReadingFile, key |-> key]>>]

(* The try statement of one iteration, on the resource the URL returns. *)
Try(key, res) ==
    IF res = Unparseable THEN ExceptHandler(key) ELSE TryBody(key, ReadCsv(res))

(* Try, tabulated once: entry (k - 1) * NumResources + x is the try        *)
(* statement for the k-th key on resource x.                              *)
TryTable ==
    [y \in 1..(Len(AllKeys) * NumResources) |->
        LET x == ((y - 1) % NumResources) + 1
        IN  IF x \in ResourceIds
            THEN Try(AllKeys[((y - 1) \div NumResources) + 1], Resource(x))
            ELSE ExceptHandler("")] @@ <<>>

(* ---------------------------------------------------------------------- *)
(* Cell 5: the paginated search                                            *)
(* ---------------------------------------------------------------------- *)
(* The reports of the area are numbered 1..count in the order in which    *)
(* the API lists them.                                                    *)
MaxCount == 3100

(* The numbers of reports the area may hold. *)
Counts == {n \in 0..MaxCount : n % 100 \in {0, 1, 2, 99}}

PageSize == 1000
LoopLimit == 3000
RowsMax == 1000

(* package_search?rows=..&start=.. on an area of n reports: the reports    *)
(* after the first `start`, at most `rows` of them and at most RowsMax.   *)
PackageSearch(n, rows, start) ==
    LET m == IF rows < RowsMax THEN rows ELSE RowsMax
        last == IF n < start + m THEN n ELSE start + m
    IN  [k \in 1..(IF last > start THEN last - start ELSE 0) |-> start + k]

(* Mutant: the loop stops one page early. *)
WhileConditionShort(x) == x < LoopLimit - PageSize

(* while i < 3000 *)
WhileCondition(x) == x < LoopLimit

(* One iteration of the while loop. *)
RequestPage ==
    /\ pc = "cell5"
    /\ WhileCondition(i)
    /\ LET rows_start == i
           rows_end == i + PageSize
       IN  response_list' = Append(response_list,
                                   PackageSearch(count, rows_end, rows_start))
    /\ i' = i + PageSize
    /\ UNCHANGED <<pc, count, report_list, other, formatVars, classifierVars>>

(* report_list = sum(response_list, []) *)
SumResponses ==
    /\ pc = "cell5"
    /\ ~WhileCondition(i)
    /\ report_list' = Flatten(response_list)
    /\ pc' = "cell6"
    /\ UNCHANGED <<i, count, response_list, other, formatVars, classifierVars>>

(* ---------------------------------------------------------------------- *)
(* Cell 9: the filter of the reports                                       *)
(* ---------------------------------------------------------------------- *)
(* A report is a dictionary: keys is the set of its keys among             *)
(* 'resources' and 'open_file_date', and the value of an absent key is    *)
(* left empty.  A resource has a name and a URL, one of the URLs of Web.  *)
MaxReports == 2

Collar == <<"c","o","l","l","a","r">>
Since == <<"2","0","1","0","-","0","1","-","0","1">>

CollarTxt == [name |-> <<"C","o","l","l","a","r",".","t","x","t">>, url |-> 2]
CollarsTxt ==
    [name |-> <<"D","H","_","C","O","L","L","A","R","S",".","T","X","T">>, url |-> 4]
AssayTxt == [name |-> <<"a","s","s","a","y",".","t","x","t">>, url |-> 6]

ResourceLists ==
    {<<>>, <<AssayTxt>>, <<CollarTxt>>, <<CollarTxt, CollarsTxt>>,
     <<CollarsTxt, AssayTxt, CollarTxt>>}

Dates == {<<"2","0","0","9","-","1","2","-","3","1">>, Since}

Reports ==
    {[identifier |-> AllKeys[a], keys |-> ks, open_file_date |-> d, resources |-> rs] :
        a \in DOMAIN AllKeys, ks \in SUBSET {"resources", "open_file_date"},
        d \in Dates \cup {<<>>}, rs \in ResourceLists}

(* The reports the search may have returned. *)
ReportsReturned ==
    {r \in Reports :
        /\ (r.open_file_date # <<>>) <=> ("open_file_date" \in r.keys)
        /\ "resources" \notin r.keys => r.resources = <<>>}

(* The order of the characters of a date, by code point. *)
CharOrder == <<"-","0","1","2","3","4","5","6","7","8","9">>
Ord(c) == CHOOSE k \in DOMAIN CharOrder : CharOrder[k] = c

(* a < b on strings. *)
StrLess(a, b) ==
    \E k \in DOMAIN b :
        /\ \A j \in 1..(k - 1) : j <= Len(a) /\ a[j] = b[j]
        /\ k > Len(a) \/ Ord(a[k]) < Ord(b[k])

(* Mutant: the date test written as a strict comparison. *)
OpenFileDateAfter(d) == StrLess(Since, d)

(* report['open_file_date'] >= '2010-01-01' *)
OpenFileDateOk(d) == ~StrLess(d, Since)

(* d[key] = url on a dictionary given by its items in insertion order. *)
Put(d, key, url) ==
    IF \E k \in DOMAIN d : d[k].key = key
    THEN [k \in DOMAIN d |-> IF d[k].key = key THEN [key |-> key, url |-> url] ELSE d[k]]
    ELSE Append(d, [key |-> key, url |-> url])

RECURSIVE PutCollars(_, _, _)
(* for resource in report['resources']: ... *)
PutCollars(d, identifier, resources) ==
    IF resources = <<>> THEN d
    ELSE LET name == Lower(Head(resources).name)
         IN  PutCollars(IF Contains(name, Collar)
                        THEN Put(d, identifier, Head(resources).url) ELSE d,
                        identifier, Tail(resources))

(* The body of `for report in report_list`. *)
FilterOne(d, report) ==
    IF "resources" \in report.keys /\ "open_file_date" \in report.keys
    THEN IF OpenFileDateOk(report.open_file_date)
         THEN PutCollars(d, report.identifier, report.resources)
         ELSE d
    ELSE d

(* One iteration of `for report in report_list`. *)
FilterReport ==
    /\ pc = "cell9"
    /\ i < Len(report_list)
    /\ collar_file_dict' = FilterOne(collar_file_dict, report_list[i + 1])
    /\ i' = i + 1
    /\ UNCHANGED <<pc, other, ggic, error_reading_file, searchVars, classifierVars>>

(* print("Number of collar files found", len(collar_file_dict)) *)
Cell9Print ==
    /\ pc = "cell9"
    /\ i = Len(report_list)
    /\ pc' = "cell10"
    /\ UNCHANGED <<i, other, formatVars, searchVars, classifierVars>>

(* ---------------------------------------------------------------------- *)
(* Cell 12: the breakdown of the collar files by format                    *)
(* ---------------------------------------------------------------------- *)
(* A byte is a one-character string when it is ASCII; "0xC3" "0xA9" is the*)
(* two-byte encoding of e-acute and "0xFF" is a byte no UTF-8 text holds. *)
Tag1 == <<"H","0","0","0","1">>
Tag2 == <<"H","0","0","0","2">>

ReadLimit == 500

Pad(n) == [k \in 1..n |-> " "]

FetchError == [kind |-> "urlerror"]

(* What the URLs of collar_file_dict return: an error of urlopen, or the  *)
(* bytes of the file.                                                     *)
Web == <<
    FetchError,
    <<"H","0","0","0","1","\t","1",".","0","\r","\n">>,
    <<"H","0","0","0","2","\t","C","R">>,
    <<"H","o","l","e","\t","E","a","s","t","\r","\n">>,
    <<"H","0","0","\r","0","1","\t","x">>,
    <<"H","0","0","0","\t","1">>,
    <<"0xFF","H","0","0","0","1">>,
    Pad(ReadLimit - 3) \o Tag1,
    Pad(ReadLimit - 1) \o <<"0xC3","0xA9">> >>

(* The URL of a file in no known format. *)
PlainUrl == 4

(* read(500) *)
Read(bytes, n) == SubSeq(bytes, 1, IF Len(bytes) < n THEN Len(bytes) ELSE n)

(* decode('utf-8') raises on these bytes. *)
DecodeRaises(b) ==
    \E k \in DOMAIN b :
        \/ b[k] = "0xFF"
        \/ b[k] = "0xC3" /\ (k = Len(b) \/ b[k + 1] # "0xA9")
        \/ b[k] = "0xA9" /\ (k = 1 \/ b[k - 1] # "0xC3")

(* decode('utf-8') of bytes it does not raise on. *)
Decode(b) ==
    SelectSeq([k \in DOMAIN b |-> IF b[k] = "0xC3" THEN "e-acute" ELSE b[k]],
              LAMBDA c : c # "0xA9")

(* response.replace('\t', ' ') *)
ReplaceTabs(x) == [k \in DOMAIN x |-> IF x[k] = "\t" THEN " " ELSE x[k]]

(* response.replace('\r', '') *)
RemoveCRs(x) == SelectSeq(x, LAMBDA c : c # "\r")

(* The try statement of cell 12 on the file at url: the branch it takes. *)
TryFormat(url) ==
    IF Web[url] = FetchError THEN "except"
    ELSE LET bytes == Read(Web[url], ReadLimit)
         IN  IF DecodeRaises(bytes) THEN "except"
             ELSE LET response == RemoveCRs(ReplaceTabs(Decode(bytes)))
                  IN  IF Contains(response, Tag1) \/ Contains(response, Tag2)
                      THEN "ggic" ELSE "other"

(* TryFormat, tabulated once. *)
FormatTable == [url \in DOMAIN Web |-> TryFormat(url)] @@ <<>>

(* d[key] = value on a dictionary given by its keys in insertion order. *)
SetItem(d, key) == IF key \in Range(d) THEN d ELSE Append(d, key)

(* The position of a key in AllKeys. *)
KeyIndex(key) == CHOOSE k \in DOMAIN AllKeys : AllKeys[k] = key

(* One iteration of `for key, value in collar_file_dict.items()`. *)
ClassifyFormat ==
    /\ pc = "cell12"
    /\ i < Len(collar_file_dict)
    /\ LET key == collar_file_dict[i + 1].key
           branch == FormatTable[collar_file_dict[i + 1].url]
       IN  /\ ggic' = IF branch = "ggic" THEN SetItem(ggic, key) ELSE ggic
           /\ other' = IF branch = "other" THEN SetItem(other, key) ELSE other
           /\ error_reading_file' = IF branch = "except"
                                    THEN error_reading_file + 1
                                    ELSE error_reading_file
    /\ i' = i + 1
    /\ UNCHANGED <<pc, collar_file_dict, searchVars, classifierVars>>

(* The loop of cell 12 is over; cell 13 prints the three counts and the   *)
(* notebook goes on to the loop of cell 19.                               *)
Cell13 ==
    /\ pc = "cell12"
    /\ i = Len(collar_file_dict)
    /\ pc' = "cell19"
    /\ i' = 0
    /\ UNCHANGED <<other, formatVars, searchVars, classifierVars>>

(* One iteration of `for key, value in other.items()`, on the (i + 1)-th  *)
(* key of other.                                                          *)
ClassifyDataset ==
    /\ pc = "cell19"
    /\ i < Len(other)
    /\ \E x \in ResourceIds :
          LET t == TryTable[(KeyIndex(other[i + 1]) - 1) * NumResources + x]
          IN  /\ csv' = t.csv
              /\ out' = out \o t.printed
              /\ sub_df_list' = sub_df_list \o t.appended
              /\ IF t.raised
                 THEN UNCHANGED <<sub_df, potential_locations>>
                 ELSE /\ sub_df' = t.sub_df
                      /\ potential_locations' = t.potential_locations
    /\ i' = i + 1
    /\ UNCHANGED <<other, pc, final, formatVars, searchVars>>

(* final = pd.concat(sub_df_list), which raises on an empty list. *)
Cell20 ==
    /\ pc = "cell19"
    /\ i = Len(other)
    /\ IF sub_df_list = <<>>
       THEN pc' = "raised" /\ final' = final
       ELSE pc' = "done" /\ final' = Concat(sub_df_list)
    /\ UNCHANGED <<other, i, csv, sub_df, potential_locations, sub_df_list, out>>
    /\ UNCHANGED <<formatVars, searchVars>>

Init ==
    /\ other \in Prefixes(AllKeys)
    /\ i = 0
    /\ pc = "cell19"
    /\ csv = NoFrame
    /\ sub_df = NoFrame
    /\ potential_locations = <<>>
    /\ sub_df_list = <<>>
    /\ out = <<>>
    /\ final = Raw16
    /\ collar_file_dict = [k \in DOMAIN other |-> [key |-> other[k], url |-> PlainUrl]]
    /\ ggic = <<>>
    /\ error_reading_file = 0
    /\ count = NotFollowed
    /\ response_list = NotFollowed
    /\ report_list = NotFollowed

Next == ClassifyDataset \/ Cell20

Spec == Init /\ [][Next]_vars

(* The loop and the cell after it run to their end. *)
FairSpec == Spec /\ WF_vars(Next)

(* The notebook from cell 12 on: the collar files found are keys of        *)
(* AllKeys, each with one of the URLs of Web.                             *)
InitFormats ==
    /\ \E keys \in Prefixes(AllKeys) :
          collar_file_dict \in
              {[k \in DOMAIN keys |-> [key |-> keys[k], url |-> u[k]]] :
                  u \in [DOMAIN keys -> DOMAIN Web]}
    /\ ggic = <<>>
    /\ other = <<>>
    /\ error_reading_file = 0
    /\ i = 0
    /\ pc = "cell12"
    /\ csv = NoFrame
    /\ sub_df = NoFrame
    /\ potential_locations = <<>>
    /\ sub_df_list = <<>>
    /\ out = <<>>
    /\ final = Raw16
    /\ count = NotFollowed
    /\ response_list = NotFollowed
    /\ report_list = NotFollowed

NextFormats == ClassifyFormat \/ Cell13 \/ ClassifyDataset \/ Cell20

SpecFormats == InitFormats /\ [][NextFormats]_vars

(* Cell 5 alone, on an area of any of the numbers of reports of Counts;    *)
(* report_list, not assigned before the last line, starts empty.          *)
InitPages ==
    /\ count \in Counts
    /\ i = 0
    /\ response_list = <<>>
    /\ report_list = <<>>
    /\ pc = "cell5"
    /\ other = NotFollowed
    /\ collar_file_dict = NotFollowed
    /\ ggic = NotFollowed
    /\ error_reading_file = NotFollowed
    /\ csv = NotFollowed
    /\ sub_df = NotFollowed
    /\ potential_locations = NotFollowed
    /\ sub_df_list = NotFollowed
    /\ out = NotFollowed
    /\ final = NotFollowed

NextPages == RequestPage \/ SumResponses

SpecPages == InitPages /\ [][NextPages]_vars

(* The cell runs to its end. *)
FairPages == SpecPages /\ WF_vars(NextPages)

(* Cell 9 alone, on any list of at most MaxReports reports. *)
InitFilter ==
    /\ report_list \in UNION {[1..n -> ReportsReturned] : n \in 0..MaxReports}
    /\ collar_file_dict = <<>>
    /\ i = 0
    /\ pc = "cell9"
    /\ count = NotFollowed
    /\ response_list = NotFollowed
    /\ other = NotFollowed
    /\ ggic = NotFollowed
    /\ error_reading_file = NotFollowed
    /\ csv = NotFollowed
    /\ sub_df = NotFollowed
    /\ potential_locations = NotFollowed
    /\ sub_df_list = NotFollowed
    /\ out = NotFollowed
    /\ final = NotFollowed

NextFilter == FilterReport \/ Cell9Print

SpecFilter == InitFilter /\ [][NextFilter]_vars

(* ---------------------------------------------------------------------- *)
(* Vocabulary of the properties                                            *)
(* ---------------------------------------------------------------------- *)
Outcomes == {LocationsExtracted, NoLocationsFound, ErrorReadingFile}

(* The keys of the datasets reported as outcome msg, in the order printed. *)
KeysReported(msg) ==
    LET ks == [j \in DOMAIN out |-> out[j].key]
    IN  SelectIdx(ks, [j \in DOMAIN out |-> out[j].msg = msg], 1)

(* The last iteration read a table and did not raise. *)
LastLoaded == i > 0 /\ IsFrame(csv)

(* The frame appended by the last iteration, when it reported (a). *)
LastFrame == sub_df_list[Len(sub_df_list)]

(* The field of a row of a melted frame under the column named name. *)
Field(f, row, name) == row[CHOOSE k \in DOMAIN f.columns : f.columns[k] = name]

(* Column p of a table as read is numeric and the median length of its     *)
(* values rendered as text is at least 5.                                 *)
ColumnQualifies(df, p) ==
    /\ df.dtypes[p] \in {"int64", "float64"}
    /\ df.n > 0
    /\ LET lens == [r \in 1..df.n |-> Len(AsTypeStr(df.data[p][r], df.dtypes[p]))]
       IN  Median2(lens) >= 2 * 5

(* The lower-cased names of the table read, and the positions holding the  *)
(* first occurrence of a lower-cased name.                                *)
LoweredNames(df) == [p \in DOMAIN df.columns |-> Lower(df.columns[p])]
IsFirst(names, p) == \A q \in 1..(p - 1) : names[q] # names[p]
FirstOnly(names) == SelectIdx(names, [p \in DOMAIN names |-> IsFirst(names, p)], 1)

(* ---------------------------------------------------------------------- *)
(* C1                                                                      *)
(* ---------------------------------------------------------------------- *)
(* C1: every dataset processed has exactly one of the three outcomes       *)
(* printed for it, and every outcome (a) comes with a non-empty frame of   *)
(* Extraction Records appended for that dataset.                           *)
C1_OneOutcomeAndNonEmpty ==
    /\ Len(out) = i
    /\ \A j \in DOMAIN out : out[j].key = other[j] /\ out[j].msg \in Outcomes
    /\ Len(sub_df_list) = Len(KeysReported(LocationsExtracted))
    /\ \A j \in DOMAIN sub_df_list : sub_df_list[j].rows # <<>>

(* ---------------------------------------------------------------------- *)
(* C2                                                                      *)
(* ---------------------------------------------------------------------- *)
(* C2: an iteration that loads a table none of whose columns is numeric    *)
(* with median rendered length >= 5 prints "no locations found" for the   *)
(* dataset's key, and nothing else, and leaves sub_df_list as it was.     *)
C2_NoQualifyingColumn ==
    [][(/\ i' = i + 1
        /\ IsFrame(csv')
        /\ \A p \in DOMAIN csv'.columns : ~ColumnQualifies(csv', p))
       => /\ out' = Append(out, [msg |-> NoLocationsFound, key |-> other[i + 1]])
          /\ sub_df_list' = sub_df_list]_vars

(* Scenario 2: the one-row table ID = 42, Depth = 120 has been classified. *)
C2_Witness ==
    /\ LastLoaded
    /\ csv = ReadCsv(Scenario2)
    /\ csv.dtypes = <<"int64", "int64">>
    /\ out[i].msg = NoLocationsFound

(* ---------------------------------------------------------------------- *)
(* C3                                                                      *)
(* ---------------------------------------------------------------------- *)
(* C3: a dataset with at least one qualifying column gives as many         *)
(* Extraction Records as it has qualifying columns times rows.            *)
C3_RecordCount ==
    (LastLoaded /\ potential_locations # <<>>)
        => Len(LastFrame.rows) = Len(potential_locations) * csv.n

(* ---------------------------------------------------------------------- *)
(* C4                                                                      *)
(* ---------------------------------------------------------------------- *)
(* C4: every Extraction Record of a dataset has a field for each of the    *)
(* dataset's identifier columns (name containing "hole"), holding the     *)
(* identifier of the row the record came from.                            *)
C4_RecordsCarryIdentifiers ==
    (LastLoaded /\ potential_locations # <<>>)
        => \A p \in DOMAIN csv.columns :
              Contains(Lower(csv.columns[p]), Hole)
                  => Lower(csv.columns[p]) \in Range(LastFrame.columns)

(* ---------------------------------------------------------------------- *)
(* C5                                                                      *)
(* ---------------------------------------------------------------------- *)
(* C5: every record of the j-th frame of sub_df_list has as report_id the  *)
(* key of the j-th dataset reported as outcome (a), and the values of the  *)
(* frame appended last are cells of the table read for that key.          *)
C5_ReportIdIsOrigin ==
    /\ Len(sub_df_list) = Len(KeysReported(LocationsExtracted))
    /\ \A j \in DOMAIN sub_df_list :
          \A r \in DOMAIN sub_df_list[j].rows :
              Field(sub_df_list[j], sub_df_list[j].rows[r], ReportIdName)
                  = TxtCell(KeysReported(LocationsExtracted)[j])
    /\ (LastLoaded /\ out[i].msg = LocationsExtracted)
          => \A r \in DOMAIN LastFrame.rows :
                /\ Field(LastFrame, LastFrame.rows[r], ReportIdName) = TxtCell(other[i])
                /\ \E p \in DOMAIN csv.columns, q \in 1..csv.n :
                      /\ Lower(csv.columns[p])
                            = Field(LastFrame, LastFrame.rows[r], VariableName)
                      /\ csv.data[p][q] = Field(LastFrame, LastFrame.rows[r], ValueName)

(* Two datasets gave records, each under its own key, and the second table *)
(* had a column report_id of its own.                                     *)
C5_Witness ==
    /\ i = 2
    /\ Len(sub_df_list) = 2
    /\ sub_df_list[1].rows # <<>>
    /\ sub_df_list[2].rows # <<>>
    /\ IsFrame(csv)
    /\ ReportIdName \in Range(LoweredNames(csv))

(* ---------------------------------------------------------------------- *)
(* C6                                                                      *)
(* ---------------------------------------------------------------------- *)
(* C6: an iteration whose read fails prints "error reading file" for the  *)
(* dataset's key, leaves sub_df_list as it was and stays in the loop; and  *)
(* the loop comes to the end of `other` whatever the failures.            *)
C6_FailureIsContained ==
    /\ [][(i' = i + 1 /\ csv' = ReadError)
          => /\ out' = Append(out, [msg |-> ErrorReadingFile, key |-> other[i + 1]])
             /\ sub_df_list' = sub_df_list
             /\ pc' = "cell19"]_vars
    /\ <>(i = Len(other))

(* The first dataset failed to load and the second was classified. *)
C6_Witness ==
    /\ i = 2
    /\ out[1].msg = ErrorReadingFile
    /\ out[2].msg = LocationsExtracted
    /\ Len(sub_df_list) = 1

(* ---------------------------------------------------------------------- *)
(* C7                                                                      *)
(* ---------------------------------------------------------------------- *)
(* C7: once the loop has processed its datasets and cell 20 has run,       *)
(* `final` is the combined collection: the rows of the frames of the       *)
(* datasets reported as outcome (a), and no other.                        *)
C7_CombinedIsUnion ==
    (pc # "cell19" /\ i > 0)
        => /\ Len(sub_df_list) = Len(KeysReported(LocationsExtracted))
           /\ final.kind = "concat"
           /\ final.rows = Flatten([j \in DOMAIN sub_df_list |-> sub_df_list[j].rows])
           /\ \A r \in DOMAIN final.rows :
                 \E j \in DOMAIN out :
                     /\ out[j].msg = LocationsExtracted
                     /\ Field(final, final.rows[r], ReportIdName) = TxtCell(out[j].key)

(* ---------------------------------------------------------------------- *)
(* C8                                                                      *)
(* ---------------------------------------------------------------------- *)
(* C8: the columns classified are the lower-cased names of the table read, *)
(* first occurrences only, in their order, each with the data of its first *)
(* occurrence; so no name is a Coordinate Column twice.                   *)
C8_LowerCaseFirstWins ==
    LastLoaded =>
        LET names == LoweredNames(csv)
            firstData(v) == csv.data[CHOOSE p \in DOMAIN names :
                                        names[p] = v /\ IsFirst(names, p)]
        IN  /\ \A k \in DOMAIN potential_locations :
                  /\ potential_locations[k] \in Range(names)
                  /\ \A c \in DOMAIN potential_locations[k] :
                        potential_locations[k][c] \notin Range(UpperChars)
                  /\ \A j \in DOMAIN potential_locations :
                        potential_locations[j] = potential_locations[k] => j = k
            /\ potential_locations = <<>>
                  => /\ sub_df.columns = FirstOnly(names)
                     /\ \A k \in DOMAIN sub_df.columns :
                           sub_df.data[k] = firstData(sub_df.columns[k])
            /\ potential_locations # <<>>
                  => /\ \A k \in DOMAIN sub_df.columns :
                           sub_df.columns[k] # ReportIdName
                               => sub_df.data[k] = firstData(sub_df.columns[k])
                     /\ \A r \in DOMAIN LastFrame.rows :
                           \E q \in 1..csv.n :
                               Field(LastFrame, LastFrame.rows[r], ValueName)
                                   = firstData(Field(LastFrame, LastFrame.rows[r],
                                                     VariableName))[q]

(* A table with the columns EASTING and Easting has been classified: one   *)
(* column easting is left, with the data of EASTING.                      *)
C8_Witness ==
    /\ LastLoaded
    /\ csv.columns = <<Catalogue[1].name, Catalogue[2].name>>
    /\ csv.n = 1
    /\ sub_df.columns = <<Lower(Catalogue[2].name)>>
    /\ sub_df.data = <<<<IntCell(42)>>>>

(* ---------------------------------------------------------------------- *)
(* C9                                                                      *)
(* ---------------------------------------------------------------------- *)
(* C9: de-duplication changes nothing in a frame whose labels are already  *)
(* distinct (the frame each iteration leaves in sub_df, and its result on  *)
(* the table read), and the second de-duplication leaves the first         *)
(* occurrences of [report_id] + potential_locations + potential_ids.      *)
C9_DeduplicationIdempotent ==
    LastLoaded =>
        LET names == LoweredNames(csv)
            ids == SelectIdx(FirstOnly(names),
                             [k \in DOMAIN FirstOnly(names) |->
                                 Contains(FirstOnly(names)[k], Hole)], 1)
        IN  /\ DropDuplicateColumns(sub_df) = sub_df
            /\ DropDuplicateColumns(Normalise(csv)) = Normalise(csv)
            /\ Normalise(csv).columns = FirstOnly(names)
            /\ potential_locations # <<>>
                  => sub_df.columns
                        = FirstOnly(<<ReportIdName>> \o potential_locations \o ids)

(* The working table was built from a concatenation that repeated a name. *)
C9_Witness ==
    /\ LastLoaded
    /\ potential_locations # <<>>
    /\ \E k \in DOMAIN potential_locations : Contains(potential_locations[k], Hole)
    /\ Len(sub_df.columns) = 1 + Len(potential_locations)

(* ---------------------------------------------------------------------- *)
(* C10                                                                     *)
(* ---------------------------------------------------------------------- *)
(* C10: no column whose name contains "hole" is a Coordinate Column, and   *)
(* no Extraction Record has such a name as its variable.                  *)
C10_HoleIsNeverCoordinate ==
    /\ \A k \in DOMAIN potential_locations : ~Contains(potential_locations[k], Hole)
    /\ \A j \in DOMAIN sub_df_list :
          \A r \in DOMAIN sub_df_list[j].rows :
              ~Contains(Field(sub_df_list[j], sub_df_list[j].rows[r], VariableName), Hole)

(* ---------------------------------------------------------------------- *)
(* C11                                                                     *)
(* ---------------------------------------------------------------------- *)
(* The lengths of the values of column p of the table read, rendered as   *)
(* text, and the same lengths in non-decreasing order.                    *)
RenderedLengths(df, p) ==
    [r \in 1..df.n |-> Len(AsTypeStr(df.data[p][r], df.dtypes[p]))]

SortedLengths(lens) ==
    CHOOSE t \in [DOMAIN lens -> Range(lens)] :
        /\ \A a, b \in DOMAIN t : a < b => t[a] <= t[b]
        /\ \A v \in Range(lens) :
              Cardinality({r \in DOMAIN lens : lens[r] = v})
                  = Cardinality({r \in DOMAIN t : t[r] = v})

(* The median of a non-empty sequence of lengths is at least m: the       *)
(* middle one of an odd number of lengths, the mean of the two middle     *)
(* ones of an even number.                                                *)
MedianAtLeast(lens, m) ==
    LET t == SortedLengths(lens)
        n == Len(lens)
    IN  IF n % 2 = 1 THEN t[(n + 1) \div 2] >= m
        ELSE t[n \div 2] + t[(n \div 2) + 1] >= 2 * m

Processed == IF pc = "cell12" THEN i ELSE Len(collar_file_dict)

(* The fetch of the file at url fails, or its first 500 bytes do not       *)
(* decode as UTF-8.                                                       *)
FetchOrDecodeFails(url) ==
    Web[url] = FetchError \/ DecodeRaises(Read(Web[url], ReadLimit))

(* The first 500 bytes of the file at url, decoded, contain a GGIC tag. *)
HeadHasTag(url) ==
    LET head == Decode(Read(Web[url], ReadLimit))
    IN  Contains(head, Tag1) \/ Contains(head, Tag2)

(* The three classes partition the collar files processed so far, and the *)
(* three counts add up to their number.                                   *)
ClassesPartition ==
    /\ Range(ggic) \cap Range(other) = {}
    /\ Range(ggic) \cup Range(other)
          \subseteq {collar_file_dict[k].key : k \in 1..Processed}
    /\ Len(ggic) + Len(other) + error_reading_file = Processed

(* The classifier of cell 19 has processed files of other only, in order. *)
ClassifierOnOther ==
    /\ pc = "cell12" => out = <<>>
    /\ Len(out) <= Len(other)
    /\ \A k \in DOMAIN out : out[k].key = other[k] /\ out[k].key \notin Range(ggic)

(* C12: every collar file processed is in exactly one of ggic (its first  *)
(* 500 bytes decode as UTF-8 and contain H0001 or H0002), other (they      *)
(* decode and contain neither) or the count error_reading_file (fetch or  *)
(* decode failed); the three sizes add up to the number of files          *)
(* processed so far, and cell 19 processes only the files of other.       *)
C12_ThreeDisjointClasses ==
    /\ ClassesPartition
    /\ ClassifierOnOther
    /\ \A k \in 1..Processed :
          LET key == collar_file_dict[k].key
              url == collar_file_dict[k].url
          IN  /\ key \in Range(ggic)
                    <=> (~FetchOrDecodeFails(url) /\ HeadHasTag(url))
              /\ key \in Range(other)
                    <=> (~FetchOrDecodeFails(url) /\ ~HeadHasTag(url))
    /\ error_reading_file
          = Cardinality({k \in 1..Processed :
                            FetchOrDecodeFails(collar_file_dict[k].url)})

(* ---------------------------------------------------------------------- *)
(* C13                                                                     *)
(* ---------------------------------------------------------------------- *)
(* While the loop runs, the k-th request is made with start offset        *)
(* 1000 * (k - 1), and there are never more than three.                   *)
OffsetsSoFar ==
    pc = "cell5" =>
        /\ Len(response_list) <= 3
        /\ i = 1000 * Len(response_list)

(* After the cell: three requests were made, and when the area has at     *)
(* most 3000 reports every one of them is in report_list exactly once.    *)
AllReportsOnce ==
    pc = "cell6" =>
        /\ Len(response_list) = 3
        /\ count <= 3000 =>
              /\ Len(report_list) = count
              /\ Range(report_list) = 1..count

(* C13: the loop of cell 5 ends after exactly three requests, with start  *)
(* offsets 0, 1000 and 2000, and then report_list holds every report of    *)
(* an area of at most 3000 reports exactly once, the API returning at     *)
(* most 1000 results per request.                                         *)
C13_ThreePagesAllReports ==
    /\ [](OffsetsSoFar /\ AllReportsOnce)
    /\ <>(pc = "cell6")

(* The area of the notebook's run, 2502 reports: pages of 1000, 1000 and  *)
(* 502 reports.                                                           *)
C13_Witness ==
    /\ pc = "cell6"
    /\ count = 2502
    /\ Len(response_list[2]) = 1000
    /\ response_list[3][1] = 2001
    /\ Len(response_list[3]) = 502
    /\ Len(report_list) = 2502

(* ---------------------------------------------------------------------- *)
(* C14                                                                     *)
(* ---------------------------------------------------------------------- *)
(* A date YYYY-MM-DD as the number YYYYMMDD. *)
DigitValue(c) == (CHOOSE k \in DOMAIN DigitChars : DigitChars[k] = c) - 1
DateNumber(d) ==
    10000000 * DigitValue(d[1]) + 1000000 * DigitValue(d[2])
      + 100000 * DigitValue(d[3]) + 10000 * DigitValue(d[4])
      + 1000 * DigitValue(d[6]) + 100 * DigitValue(d[7])
      + 10 * DigitValue(d[9]) + DigitValue(d[10])

(* The positions of the resources of a report with 'collar' in the        *)
(* lower-cased name.                                                      *)
CollarResources(r) ==
    {k \in DOMAIN r.resources : Contains(Lower(r.resources[k].name), Collar)}

(* The report has both keys, was open-filed on 2010-01-01 or later and    *)
(* has a collar resource.                                                 *)
Selected(r) ==
    /\ {"resources", "open_file_date"} \subseteq r.keys
    /\ DateNumber(r.open_file_date) >= 20100101
    /\ CollarResources(r) # {}

(* The positions in report_list of the selected reports with identifier id. *)
SelectedWith(id) ==
    {j \in DOMAIN report_list : report_list[j].identifier = id /\ Selected(report_list[j])}

Last(S) == CHOOSE k \in S : \A m \in S : m <= k

====
